---- MODULE Spec2Model ----
(***************************************************************************)
(* State-machine model of TimeViewFeature (src/features/time_view.py): the *)
(* four channel ring buffers and the timestamp ring, the feed ingest, the  *)
(* tag switch, the timer-driven plot refresh with its buffer sizer, and    *)
(* the pointer handlers (press, release, motion/hover, scroll).            *)
(*                                                                         *)
(* Conventions                                                             *)
(*  - Python None is the empty sequence <<>>, a present value x is <<x>>;  *)
(*    the selected tag uses the string NoTag for None.                     *)
(*  - Floats are exact rationals <<n, d>> (d > 0, lowest terms); int() is  *)
(*    truncation toward zero.                                              *)
(*  - The wall clock is in milliseconds.                                   *)
(*  - A batch of values is given by its length and a batch number; the     *)
(*    value at 0-based index i of a batch is the record built by ValueAt.  *)
(*    The fields tag, id and seq of a stored sample are bookkeeping of the *)
(*    model (which tag and batch the sample came from, and its arrival     *)
(*    number); pos and fin stand for the number itself.                    *)
(*  - All handlers run on the one UI thread, so each is one atomic action. *)
(***************************************************************************)
EXTENDS Integers, Sequences, FiniteSets, TLC

\* ---------------------------------------------------------------- bounds
\* Steps of each kind the environment takes (per specification).
FeedMaxIngests == 2
FeedMaxTicks == 2
SwitchMaxSelects == 1
SwitchMaxIngests == 2
SwitchMaxTicks == 1
DemuxMaxIngests == 1
DemuxMaxTicks == 1
ZoomMaxIngests == 2
ZoomMaxScrolls == 4
ZoomMaxTicks == 1
DragMaxPointer == 3
DragMaxSelects == 1
DragMaxTicks == 1

\* ------------------------------------------------------ program constants
initial_buffer_size == 4096
SplitStart == 10
SplitStep == 4
SplitStopCap == 4096 * 4
MinBufferSize == 100
MinSamplesPerWindow == 2
MsPerSecond == 1000

NoTag == "None"
NoTagsItem == "No Tags Available"
Channels == 0 .. 3

\* ------------------------------------------------------------ input sets
Tags == {"A", "B"}
\* Lengths of the batches the feed delivers.
FeedLens == {40, 414}
SwitchLens == {14, 414}
SwitchDeltas == {500}
DemuxLens == {13, 14, 17, 18, 414, 16385, 16390}
ZoomLens == {414}
ZoomTag == "A"
ZoomAxes == { << 0 >>, << 1 >> }
\* Milliseconds between two readings of the wall clock.
Deltas == {0, 500}
DemuxDeltas == {500}
\* What the historical store returns: a list of entries, each the length of
\* its values and whether all of them are finite (in an entry that is not,
\* the values at indices 10, 14, 18, ... are not finite).
Histories ==
    { <<>>,
      << [len |-> 14, fin |-> TRUE] >>,
      << [len |-> 414, fin |-> TRUE], [len |-> 13, fin |-> TRUE],
         [len |-> 414, fin |-> FALSE] >> }
DragHistory == << [len |-> 14, fin |-> TRUE], [len |-> 14, fin |-> TRUE] >>

\* ------------------------------------------------------------- rationals
Abs(x) == IF x < 0 THEN -x ELSE x
Min(a, b) == IF a <= b THEN a ELSE b
Max(a, b) == IF a >= b THEN a ELSE b

RECURSIVE GCD(_, _)
GCD(a, b) == IF b = 0 THEN a ELSE GCD(b, a % b)

Rat(n, d) ==
    LET g == GCD(Abs(n), Abs(d))
        s == IF d < 0 THEN -1 ELSE 1
    IN  << (s * n) \div g, (s * d) \div g >>
RInt(k) == << k, 1 >>
RAdd(x, y) == Rat(x[1] * y[2] + y[1] * x[2], x[2] * y[2])
RSub(x, y) == Rat(x[1] * y[2] - y[1] * x[2], x[2] * y[2])
RMul(x, y) == Rat(x[1] * y[1], x[2] * y[2])
RDiv(x, y) == Rat(x[1] * y[2], x[2] * y[1])
RLess(x, y) == x[1] * y[2] < y[1] * x[2]
\* Python int(): truncation toward zero.
Trunc(x) == IF x[1] >= 0 THEN x[1] \div x[2] ELSE -((-x[1]) \div x[2])

\* ---------------------------------------------------------------- deques
\* collections.deque(maxlen=n): a record of the items and the capacity.
NewDeque(n) == [items |-> <<>>, maxlen |-> n]

LastN(s, k) == IF Len(s) <= k THEN s ELSE SubSeq(s, Len(s) - k + 1, Len(s))
FirstN(s, k) == IF Len(s) <= k THEN s ELSE SubSeq(s, 1, k)

\* A deque that, once full, refuses new items instead of dropping old ones.
DequeExtendKeepOldest(d, xs) == [d EXCEPT !.items = FirstN(d.items \o xs, d.maxlen)]

\* deque.append / deque.extend: the items are added at the right end one by
\* one, and each one added at full capacity drops the item at the left end.
DequeExtend(d, xs) == [d EXCEPT !.items = LastN(d.items \o xs, d.maxlen)]

\* deque(iterable, maxlen=n)
DequeFrom(xs, n) == DequeExtend(NewDeque(n), xs)
DequeClear(d) == [d EXCEPT !.items = <<>>]

\* ----------------------------------------------------------------- state
VARIABLES
    pc,                    \* "init" before initUI has run, then "ready"
    tags_data,             \* the tag catalog's answer, a sequence of tag names
    mqtt_tag,              \* the selected tag, or NoTag
    timer,                 \* TRUE while the refresh timer is running
    time_view_buffers,     \* [Channels -> deque of samples]
    time_view_timestamps,  \* deque of timestamps, 4 per sample position
    axes,                  \* 0: attribute not set; g > 0: g-th list of 4 subplots
    xlim,                  \* [Channels -> <<lo, hi>>], the subplots' X limits
    lines,                 \* [Channels -> [nx, ny]], sizes of each line's x and y data
    dragging, press_x, active_ax,
    last_data_time, data_rate,
    samples_per_window,    \* <<>> while the attribute is not set
    annotations,           \* the hover annotations, a sequence of values
    time_result,           \* which status text is shown
    now,                   \* the wall clock as last read, in ms
    error,                 \* the exception the last handler ended with, or "none"
    last,                  \* the last handler call and its inputs
    stored,                \* sample positions stored since construction
    batches,               \* batches handed to split_and_store_values so far
    n                      \* steps taken, by kind

vars == << pc, tags_data, mqtt_tag, timer, time_view_buffers, time_view_timestamps,
           axes, xlim, lines, dragging, press_x, active_ax, last_data_time,
           data_rate, samples_per_window, annotations, time_result, now, error,
           last, stored, batches, n >>

bufferVars == << time_view_buffers, time_view_timestamps, stored, batches >>
plotVars == << axes, xlim, lines >>
dragVars == << dragging, press_x, active_ax >>
rateVars == << last_data_time, data_rate >>

\* ------------------------------------------------- split_and_store_values
\* range(start, stop, step) for step > 0
Range(start, stop, step) ==
    [k \in 1 .. (IF stop > start THEN (stop - start + step - 1) \div step ELSE 0)
        |-> start + step * (k - 1)]

\* The value at index i of batch b, stored as the seq-th sample position.
ValueAt(b, i, seq) ==
    [tag |-> b.tag, id |-> b.id, pos |-> i,
     fin |-> (b.fin \/ (i - SplitStart) % SplitStep # 0), seq |-> seq]

\* A loop that stores the trailing incomplete group as well.
SplitIndicesNoGuard(len) == Range(SplitStart, Min(len, SplitStopCap), SplitStep)

\* for i in range(10, min(len(values), 4096 * 4), 4): if i + 3 < len(values)
SplitIndices(len) ==
    SelectSeq(Range(SplitStart, Min(len, SplitStopCap), SplitStep),
              LAMBDA i : i + 3 < len)

\* st = [bufs, ts, stored]; b = [tag, id, len, fin]; stamp = [ms, frac]
split_and_store_values(st, b, stamp) ==
    LET idx == SplitIndices(b.len)
        g == Len(idx)
    IN  [bufs |-> [c \in Channels |->
                     DequeExtend(st.bufs[c],
                                 [k \in 1 .. g |-> ValueAt(b, idx[k] + c, st.stored + k)])],
         ts |-> DequeExtend(st.ts,
                            [j \in 1 .. 4 * g |->
                               [ms |-> stamp.ms, frac |-> stamp.frac, tag |-> b.tag,
                                id |-> b.id, seq |-> st.stored + ((j - 1) \div 4) + 1]]),
         stored |-> st.stored + g]

\* datetime.isoformat(): the fraction is left out when it is zero.
isoformat(t) == [ms |-> t, frac |-> (t % MsPerSecond # 0)]
\* A well-formed timestamp of the historical store.
HistoryStamp == [ms |-> 0, frac |-> TRUE]
\* datetime.strptime(s, "%Y-%m-%dT%H:%M:%S.%f") needs the fraction.
strptime_ok(stamp) == stamp.frac

\* ------------------------------------------------------------------ Init
\* The state after the attribute assignments of __init__, before initUI.
Init ==
    /\ pc = "init"
    /\ tags_data = <<>>
    /\ mqtt_tag = NoTag
    /\ timer = FALSE
    /\ time_view_buffers = [c \in Channels |-> NewDeque(initial_buffer_size)]
    /\ time_view_timestamps = NewDeque(initial_buffer_size * 4)
    /\ axes = 0
    /\ xlim = [c \in Channels |-> << RInt(0), RInt(1) >>]
    /\ lines = [c \in Channels |-> [nx |-> 0, ny |-> 0]]
    /\ dragging = FALSE
    /\ press_x = <<>>
    /\ active_ax = <<>>
    /\ last_data_time = <<>>
    /\ data_rate = RInt(1)
    /\ samples_per_window = <<>>
    /\ annotations = <<>>
    /\ time_result = "none"
    /\ now = 0
    /\ error = "none"
    /\ last = [op |-> "__init__"]
    /\ stored = 0
    /\ batches = 0
    /\ n = [ingest |-> 0, tick |-> 0, select |-> 0, scroll |-> 0, pointer |-> 0]

\* -------------------------------------------------- setup_time_view_plot
\* Storing the entries of data one after the other, each as its own batch.
RECURSIVE StoreEntries(_, _, _, _, _)
StoreEntries(st, tag, data, k, id) ==
    IF k > Len(data) THEN st
    ELSE StoreEntries(
             split_and_store_values(
                 st, [tag |-> tag, id |-> id, len |-> data[k].len, fin |-> data[k].fin],
                 HistoryStamp),
             tag, data, k + 1, id + 1)

\* A tag switch that takes the new tag's history without clearing first.
SetupBuffersNoClear(tag_name, data) ==
    StoreEntries([bufs |-> time_view_buffers, ts |-> time_view_timestamps,
                  stored |-> stored],
                 tag_name, LastN(data, 2), 1, batches + 1)

\* Lines 153-155 and 159-162: clear the deques, then store data[-2:].
SetupBuffers(tag_name, data) ==
    StoreEntries([bufs |-> [c \in Channels |-> DequeClear(time_view_buffers[c])],
                  ts |-> DequeClear(time_view_timestamps),
                  stored |-> stored],
                 tag_name, LastN(data, 2), 1, batches + 1)

\* The body of setup_time_view_plot; project_name is a non-empty string.
setup_time_view_plot(tag_name, data) ==
    IF tag_name = "" \/ tag_name = NoTagsItem
    THEN UNCHANGED << mqtt_tag, timer, bufferVars, plotVars, rateVars >>
    ELSE LET st == SetupBuffers(tag_name, data) IN
         /\ mqtt_tag' = tag_name
         /\ time_view_buffers' = st.bufs
         /\ time_view_timestamps' = st.ts
         /\ stored' = st.stored
         /\ batches' = batches + Len(LastN(data, 2))
         /\ last_data_time' = <<>>
         /\ data_rate' = RInt(1)
         /\ axes' = axes + 1
         /\ xlim' = [c \in Channels |-> << RInt(0), RInt(1) >>]
         /\ lines' = [c \in Channels |-> [nx |-> 0, ny |-> 0]]
         /\ timer' = TRUE

\* initUI and connect_events: the catalog answers with tags; with at least one
\* tag the first is selected and set up.
initUI(tags, data) ==
    /\ pc = "init"
    /\ pc' = "ready"
    /\ tags_data' = tags
    /\ time_result' = "select"
    /\ IF tags # <<>>
       THEN setup_time_view_plot(tags[1], data)
       ELSE UNCHANGED << mqtt_tag, timer, bufferVars, plotVars, rateVars >>
    /\ error' = "none"
    /\ last' = [op |-> "initUI", tag |-> IF tags # <<>> THEN tags[1] ELSE NoTag,
                data |-> data]
    /\ UNCHANGED << dragVars, samples_per_window, annotations, now, n >>

\* The combo box emits currentTextChanged when another of its items is chosen.
SelectTag(tag_name, data) ==
    /\ pc = "ready"
    /\ \E k \in 1 .. Len(tags_data) : tags_data[k] = tag_name
    /\ tag_name # mqtt_tag
    /\ setup_time_view_plot(tag_name, data)
    /\ error' = "none"
    /\ last' = [op |-> "setup_time_view_plot", tag |-> tag_name, data |-> data]
    /\ n' = [n EXCEPT !.select = @ + 1]
    /\ UNCHANGED << pc, tags_data, dragVars, samples_per_window, annotations,
                    time_result, now >>

\* ------------------------------------------------------- on_data_received
\* An ingest that stores the batch whatever its tag.
IngestAnyTag(tag_name) == TRUE

\* Line 283
IngestAccepts(tag_name) == tag_name = mqtt_tag

\* A rate that forgets the division by 4.
RateOfPerValue(len, time_delta_ms) == Rat(len * MsPerSecond, time_delta_ms)

\* Line 288: len(values) / time_delta / 4, time_delta in seconds
RateOf(len, time_delta_ms) == Rat(len * MsPerSecond, time_delta_ms * 4)

on_data_received(tag_name, len, fin, delta) ==
    /\ pc = "ready"
    /\ now' = now + delta
    /\ IF IngestAccepts(tag_name)
       THEN LET current_time == now + delta
                st == split_and_store_values(
                          [bufs |-> time_view_buffers, ts |-> time_view_timestamps,
                           stored |-> stored],
                          [tag |-> tag_name, id |-> batches + 1, len |-> len, fin |-> fin],
                          isoformat(current_time))
            IN  /\ data_rate' =
                       IF last_data_time # <<>> /\ current_time - last_data_time[1] > 0
                       THEN RateOf(len, current_time - last_data_time[1])
                       ELSE data_rate
                /\ last_data_time' = << current_time >>
                /\ time_view_buffers' = st.bufs
                /\ time_view_timestamps' = st.ts
                /\ stored' = st.stored
                /\ batches' = batches + 1
       ELSE UNCHANGED << bufferVars, rateVars >>
    /\ error' = "none"
    /\ last' = [op |-> "on_data_received", tag |-> tag_name, len |-> len, fin |-> fin,
                delta |-> delta]
    /\ n' = [n EXCEPT !.ingest = @ + 1]
    /\ UNCHANGED << pc, tags_data, mqtt_tag, timer, plotVars, dragVars,
                    samples_per_window, annotations, time_result >>

\* ----------------------------------------------------- adjust_buffer_size
Width(lim) == RSub(lim[2], lim[1])

\* A sizer that leaves the timestamp ring at its old capacity.
ResizeChannelsOnly(bufs, ts, new_buffer_size) ==
    [bufs |-> [c \in Channels |-> DequeFrom(bufs[c].items, new_buffer_size)],
     ts |-> ts]

\* A sizer that rebuilds the rings from their oldest entries.
ResizeKeepOldest(bufs, ts, new_buffer_size) ==
    [bufs |-> [c \in Channels |->
                 [items |-> FirstN(bufs[c].items, new_buffer_size),
                  maxlen |-> new_buffer_size]],
     ts |-> [items |-> FirstN(ts.items, new_buffer_size * 4),
             maxlen |-> new_buffer_size * 4]]

\* Lines 200-202: the four channel deques and the timestamp deque are rebuilt
\* from their contents with the new maxlen.
Resize(bufs, ts, new_buffer_size) ==
    [bufs |-> [c \in Channels |-> DequeFrom(bufs[c].items, new_buffer_size)],
     ts |-> DequeFrom(ts.items, new_buffer_size * 4)]

\* Lines 195-198: max(int(data_rate * window_size * 2), 100), on subplot 0
NewBufferSize(rate, lim0) ==
    Max(Trunc(RMul(RMul(rate, Width(lim0)), RInt(2))), MinBufferSize)

adjust_buffer_size(bufs, ts) ==
    IF RLess(RInt(0), data_rate)
       /\ NewBufferSize(data_rate, xlim[0]) # bufs[0].maxlen
    THEN Resize(bufs, ts, NewBufferSize(data_rate, xlim[0]))
    ELSE [bufs |-> bufs, ts |-> ts]

\* -------------------------------------------------- update_time_view_plot
\* Lines 238-242: samples_per_window of subplot i
SamplesFor(i, current_buffer_size) ==
    LET k == Min(current_buffer_size, Trunc(RMul(data_rate, Width(xlim[i]))))
    IN  IF k < MinSamplesPerWindow THEN MinSamplesPerWindow ELSE k

\* s[::4]
EveryFourth(s) == [j \in 1 .. ((Len(s) + 3) \div 4) |-> s[4 * (j - 1) + 1]]

AllFinite(values) == \A j \in 1 .. Len(values) : values[j].fin

\* What the loop of lines 237-272 does for subplot i, given the buffers adj
\* the sizer left: the window, whether the fallback branch is taken, and
\* whether strptime raises on the latest timestamp.
Chart(adj, i, current_buffer_size) ==
    LET k == SamplesFor(i, current_buffer_size)
        window_values == LastN(adj.bufs[i].items, k)
        window_timestamps == EveryFourth(LastN(adj.ts.items, k * 4))
        ok == window_values # <<>> /\ AllFinite(window_values)
    IN  [k |-> k,
         fallback |-> ~ok,
         line |-> IF ok THEN [nx |-> k, ny |-> Len(window_values)]
                  ELSE [nx |-> 0, ny |-> 0],
         raises |-> ok /\ window_timestamps # <<>>
                       /\ ~strptime_ok(window_timestamps[Len(window_timestamps)])]

SetMin(S) == CHOOSE x \in S : \A y \in S : x <= y

update_time_view_plot ==
    /\ pc = "ready"
    /\ timer
    /\ last' = [op |-> "update_time_view_plot"]
    /\ n' = [n EXCEPT !.tick = @ + 1]
    /\ UNCHANGED << pc, tags_data, mqtt_tag, timer, axes, xlim, dragVars, rateVars,
                    annotations, now, stored, batches >>
    /\ LET current_buffer_size == Len(time_view_buffers[0].items) IN
       IF mqtt_tag = NoTag
       THEN /\ time_result' = "no_tag"
            /\ error' = "none"
            /\ UNCHANGED << time_view_buffers, time_view_timestamps, lines,
                            samples_per_window >>
       ELSE IF current_buffer_size < 2
       THEN /\ time_result' = "waiting"
            /\ error' = "none"
            /\ UNCHANGED << time_view_buffers, time_view_timestamps, lines,
                            samples_per_window >>
       ELSE LET adj == adjust_buffer_size(time_view_buffers, time_view_timestamps)
                chart == [i \in Channels |-> Chart(adj, i, current_buffer_size)]
                raising == {i \in Channels : chart[i].raises}
                done == IF raising = {} THEN Channels ELSE 0 .. SetMin(raising)
                lastDone == IF raising = {} THEN 3 ELSE SetMin(raising)
            IN  /\ time_view_buffers' = adj.bufs
                /\ time_view_timestamps' = adj.ts
                /\ lines' = [i \in Channels |->
                               IF i \in done THEN chart[i].line ELSE lines[i]]
                /\ samples_per_window' = << chart[lastDone].k >>
                /\ time_result' =
                       IF raising = {} THEN "data"
                       ELSE IF \E i \in done : chart[i].fallback THEN "invalid"
                       ELSE time_result
                /\ error' = IF raising = {} THEN "none" ELSE "ValueError"

\* ------------------------------------------------------ pointer handlers
\* event.inaxes is <<>> (None) or <<i>>, the i-th of the current subplots;
\* event.xdata is <<>> exactly when event.inaxes is.
TheAxes(inaxes) == << [gen |-> axes, idx |-> inaxes[1]] >>

on_press(inaxes, button, xdata) ==
    /\ pc = "ready"
    /\ (inaxes = <<>>) <=> (xdata = <<>>)
    /\ axes = 0 => inaxes = <<>>
    /\ IF axes = 0
       THEN /\ error' = "AttributeError"
            /\ UNCHANGED dragVars
       ELSE /\ error' = "none"
            /\ IF inaxes # <<>> /\ button = 1
               THEN /\ dragging' = TRUE
                    /\ press_x' = xdata
                    /\ active_ax' = TheAxes(inaxes)
               ELSE UNCHANGED dragVars
    /\ last' = [op |-> "on_press", inaxes |-> inaxes, button |-> button, xdata |-> xdata]
    /\ n' = [n EXCEPT !.pointer = @ + 1]
    /\ UNCHANGED << pc, tags_data, mqtt_tag, timer, bufferVars, plotVars, rateVars,
                    samples_per_window, annotations, time_result, now >>

on_release ==
    /\ pc = "ready"
    /\ dragging' = FALSE
    /\ press_x' = <<>>
    /\ active_ax' = <<>>
    /\ error' = "none"
    /\ last' = [op |-> "on_release"]
    /\ n' = [n EXCEPT !.pointer = @ + 1]
    /\ UNCHANGED << pc, tags_data, mqtt_tag, timer, bufferVars, plotVars, rateVars,
                    samples_per_window, annotations, time_result, now >>

\* Lines 107-113: whether the motion pans, and the limits it leaves.
Pans(inaxes, xdata) ==
    dragging /\ inaxes # <<>> /\ TheAxes(inaxes) = active_ax /\ xdata # <<>>

\* A pan that moves every subplot.
PannedAll(inaxes, xdata) ==
    LET dx == RSub(press_x[1], xdata[1])
    IN  [c \in Channels |-> << RAdd(xlim[c][1], dx), RAdd(xlim[c][2], dx) >>]

Panned(inaxes, xdata) ==
    LET dx == RSub(press_x[1], xdata[1])
        i == inaxes[1]
    IN  [xlim EXCEPT ![i] = << RAdd(xlim[i][1], dx), RAdd(xlim[i][2], dx) >>]

RCeil(x) == -((-x[1]) \div x[2])

\* np.argmin(np.abs(np.linspace(lo, hi, count) - x)), 0-based: the evenly
\* spaced point nearest to x, the first of two equally near ones.
NearestIndex(lim, count, x) ==
    IF count <= 1 \/ ~RLess(RInt(0), Width(lim)) THEN 0
    ELSE LET t == RDiv(RMul(RSub(x, lim[1]), RInt(count - 1)), Width(lim))
             j == RCeil(RSub(t, Rat(1, 2)))
         IN  Max(0, Min(count - 1, j))

on_motion(inaxes, xdata) ==
    /\ pc = "ready"
    /\ (inaxes = <<>>) <=> (xdata = <<>>)
    /\ axes = 0 => inaxes = <<>>
    /\ LET pans == Pans(inaxes, xdata)
           lim == IF pans THEN Panned(inaxes, xdata) ELSE xlim
       IN  /\ xlim' = lim
           /\ press_x' = IF pans THEN xdata ELSE press_x
           /\ IF axes = 0
              THEN /\ error' = "AttributeError"
                   /\ annotations' = <<>>
              ELSE IF inaxes = <<>>
              THEN /\ error' = "none"
                   /\ annotations' = <<>>
              ELSE IF samples_per_window = <<>>
              THEN /\ error' = "AttributeError"
                   /\ annotations' = <<>>
              ELSE LET ax_idx == inaxes[1]
                       window_values ==
                           LastN(time_view_buffers[ax_idx].items, samples_per_window[1])
                       idx == NearestIndex(lim[ax_idx], Len(window_values), xdata[1])
                   IN  /\ error' = "none"
                       /\ annotations' =
                              IF window_values # <<>>
                              THEN << window_values[idx + 1] >>
                              ELSE <<>>
    /\ last' = [op |-> "on_motion", inaxes |-> inaxes, xdata |-> xdata]
    /\ n' = [n EXCEPT !.pointer = @ + 1]
    /\ UNCHANGED << pc, tags_data, mqtt_tag, timer, bufferVars, axes, lines, dragging,
                    active_ax, rateVars, samples_per_window, time_result, now >>

\* Lines 136-141: the limits after a zoom about the centre
Zoomed(lim, step) ==
    LET center == RDiv(RAdd(lim[1], lim[2]), RInt(2))
        zoom_factor == IF step < 0 THEN Rat(12, 10) ELSE Rat(8, 10)
        half == RDiv(RMul(Width(lim), zoom_factor), RInt(2))
    IN  << RSub(center, half), RAdd(center, half) >>

on_scroll(inaxes, step) ==
    /\ pc = "ready"
    /\ axes = 0 => inaxes = <<>>
    /\ IF axes = 0
       THEN /\ error' = "AttributeError"
            /\ UNCHANGED xlim
       ELSE /\ error' = "none"
            /\ IF inaxes # <<>>
               THEN xlim' = [xlim EXCEPT ![inaxes[1]] = Zoomed(xlim[inaxes[1]], step)]
               ELSE UNCHANGED xlim
    /\ last' = [op |-> "on_scroll"]
    /\ n' = [n EXCEPT !.scroll = @ + 1]
    /\ UNCHANGED << pc, tags_data, mqtt_tag, timer, bufferVars, axes, lines, dragVars,
                    rateVars, samples_per_window, annotations, time_result, now >>

\* ------------------------------------------------------------ environment
\* Each specification lets the environment (catalog, store, feed, timer and
\* pointer) take a bounded number of steps drawn from small input sets.
Catalogs == { <<>>, << "A", "B" >> }
EventAxes == { <<>>, << 0 >>, << 1 >> }
EventX == { <<>>, << RInt(0) >>, << Rat(1, 2) >> }
Buttons == { 1, 3 }
ScrollSteps == { -1, 1 }

Construct == \E tags \in Catalogs, data \in Histories : initUI(tags, data)

\* Feed and refresh timer.
FeedIngest ==
    /\ n.ingest < FeedMaxIngests
    /\ \E t \in Tags, len \in FeedLens, d \in Deltas : on_data_received(t, len, TRUE, d)
FeedTick == n.tick < FeedMaxTicks /\ update_time_view_plot
NextFeed == Construct \/ FeedIngest \/ FeedTick
SpecFeed == Init /\ [][NextFeed]_vars

\* Tag switches between ingests and ticks.
SwitchSelect ==
    /\ n.select < SwitchMaxSelects
    /\ \E t \in Tags, data \in Histories : SelectTag(t, data)
SwitchIngest ==
    /\ n.ingest < SwitchMaxIngests
    /\ \E t \in Tags, len \in SwitchLens, d \in SwitchDeltas :
           on_data_received(t, len, TRUE, d)
SwitchTick == n.tick < SwitchMaxTicks /\ update_time_view_plot
NextSwitch == Construct \/ SwitchSelect \/ SwitchIngest \/ SwitchTick
SpecSwitch == Init /\ [][NextSwitch]_vars

\* Batches of many lengths into buffers of the initial and of resized capacity.
DemuxIngest ==
    /\ n.ingest < DemuxMaxIngests
    /\ \E t \in Tags, len \in DemuxLens, d \in DemuxDeltas :
           on_data_received(t, len, TRUE, d)
DemuxTick == n.tick < DemuxMaxTicks /\ update_time_view_plot
NextDemux == Construct \/ DemuxIngest \/ DemuxTick
SpecDemux == Init /\ [][NextDemux]_vars

\* Feed, refresh timer and scrolling.
ZoomIngest ==
    /\ n.ingest < ZoomMaxIngests
    /\ \E len \in ZoomLens, d \in Deltas : on_data_received(ZoomTag, len, TRUE, d)
ZoomScroll ==
    /\ n.scroll < ZoomMaxScrolls
    /\ \E a \in ZoomAxes, s \in ScrollSteps : on_scroll(a, s)
ZoomTick == n.tick < ZoomMaxTicks /\ update_time_view_plot
NextZoom == Construct \/ ZoomIngest \/ ZoomScroll \/ ZoomTick
SpecZoom == Init /\ [][NextZoom]_vars

\* Pointer input, with tag switches and the refresh timer.
Press ==
    /\ n.pointer < DragMaxPointer
    /\ \E a \in EventAxes, b \in Buttons, x \in EventX : on_press(a, b, x)
Release == n.pointer < DragMaxPointer /\ on_release
Motion ==
    /\ n.pointer < DragMaxPointer
    /\ \E a \in EventAxes, x \in EventX : on_motion(a, x)
DragSelect ==
    /\ n.select < DragMaxSelects
    /\ \E t \in Tags : SelectTag(t, DragHistory)
DragTick == n.tick < DragMaxTicks /\ update_time_view_plot
NextDrag == Construct \/ Press \/ Release \/ Motion \/ DragSelect \/ DragTick
SpecDrag == Init /\ [][NextDrag]_vars

\* ================================================================ claims
Items(c) == time_view_buffers[c].items
Stamps == time_view_timestamps.items
Accepted == last.op = "on_data_received" /\ last.tag = mqtt_tag
AfterSetup ==
    \/ last.op = "setup_time_view_plot"
    \/ last.op = "initUI" /\ last.tag # NoTag

\* ---- C1
\* C1: every channel buffer and the timestamp buffer hold at most maxlen
\* entries, and what a channel buffer holds is always the most recently
\* stored sample positions, in arrival order and without gaps (so an append
\* at full capacity evicted the oldest entry).
C1_BoundedMostRecent ==
    /\ Len(Stamps) <= time_view_timestamps.maxlen
    /\ \A c \in Channels :
          /\ Len(Items(c)) <= time_view_buffers[c].maxlen
          /\ \A j \in 1 .. Len(Items(c)) :
                Items(c)[j].seq = stored - Len(Items(c)) + j

\* An accepted batch of 414 values (101 groups) has just been appended to
\* buffers of capacity 100: the buffers are full and entries were evicted.
C1_Witness ==
    /\ Accepted
    /\ last.len = 414
    /\ \A c \in Channels :
          /\ time_view_buffers[c].maxlen = MinBufferSize
          /\ Len(Items(c)) = MinBufferSize

\* ---- C2
\* The number of groups of 4 a batch of len values holds from index 10 on,
\* counted over the start indices below the fixed bound 4096 * 4.
GroupsIn(len) ==
    Cardinality({ k \in 0 .. (len \div SplitStep) :
                    /\ SplitStart + SplitStep * k < Min(len, SplitStopCap)
                    /\ SplitStart + SplitStep * k + 3 < len })

SeededGroups(data) ==
    LET d == LastN(data, 2)
    IN  IF Len(d) = 0 THEN 0
        ELSE IF Len(d) = 1 THEN GroupsIn(d[1].len)
        ELSE GroupsIn(d[1].len) + GroupsIn(d[2].len)

\* C2 as stated: once a tag switch has returned, all four channel buffers and
\* the timestamp buffer are empty and the data rate is 1.0.
C2_EmptyAfterSwitch ==
    last.op = "setup_time_view_plot" =>
        /\ \A c \in Channels : Len(Items(c)) = 0
        /\ Len(Stamps) = 0
        /\ data_rate = RInt(1)

\* C2 as amended: once setup_time_view_plot has returned for a valid tag, the
\* data rate is 1.0, no last-received time is set, and the buffers hold only
\* what the last two entries of the new tag's history gave: as many sample
\* positions as those entries hold groups of 4 (at most the capacity), all of
\* the new tag, with 4 timestamps each.
C2_SeededAfterSwitch ==
    AfterSetup =>
        /\ mqtt_tag = last.tag
        /\ data_rate = RInt(1)
        /\ last_data_time = <<>>
        /\ Len(Stamps) = 4 * Len(Items(0))
        /\ \A c \in Channels :
              /\ Len(Items(c)) = Min(SeededGroups(last.data), time_view_buffers[c].maxlen)
              /\ \A j \in 1 .. Len(Items(c)) :
                    /\ Items(c)[j].tag = last.tag
                    /\ Items(c)[j].id > batches - Len(LastN(last.data, 2))

\* A tag switch has returned with buffers seeded from the history, after
\* samples stored earlier have been cleared away.
C2_Witness ==
    /\ last.op = "setup_time_view_plot"
    /\ Len(Items(0)) > 0
    /\ stored > Len(Items(0))
    /\ n.ingest > 0

\* ---- C3
C3_OneTag ==
    /\ \A c \in Channels : \A j \in 1 .. Len(Items(c)) : Items(c)[j].tag = mqtt_tag
    /\ \A j \in 1 .. Len(Stamps) : Stamps[j].tag = mqtt_tag

C3_Step ==
    /\ (last'.op = "on_data_received" /\ last'.tag # mqtt_tag) =>
           UNCHANGED << mqtt_tag, timer, bufferVars, plotVars, dragVars, rateVars,
                        samples_per_window, annotations, time_result >>
    /\ last'.op = "setup_time_view_plot" =>
           /\ timer'
           /\ data_rate' = RInt(1)
           /\ last_data_time' = <<>>

\* C3: in every state, hence at every tick, all buffered samples and
\* timestamps were stored for the selected tag; an ingest for another tag
\* changes nothing, and a tag switch leaves the timer running with rate and
\* last-received time reset.
C3_NoMixedTags == []C3_OneTag /\ [][C3_Step]_vars

\* After a switch to tag B seeded the buffers, a batch for another tag came.
C3_Witness ==
    /\ last.op = "on_data_received"
    /\ mqtt_tag = "B"
    /\ last.tag # mqtt_tag
    /\ Len(Items(0)) > 0

\* ---- C4
\* What an accepted ingest leaves in the buffers when the groups stored are
\* those numbered by the set K of group numbers k.
DemuxOf(K) ==
    LET g == Cardinality(K)
        b == [tag |-> last'.tag, id |-> batches', len |-> last'.len, fin |-> last'.fin]
    IN  /\ K = 0 .. (g - 1)
        /\ \A c \in Channels :
              time_view_buffers'[c].items =
                  LastN(Items(c) \o
                          [j \in 1 .. g |->
                             ValueAt(b, SplitStart + SplitStep * (j - 1) + c, stored + j)],
                        time_view_buffers[c].maxlen)
        /\ \A j \in 1 .. Len(Stamps') :
              Stamps'[j] = Stamps'[4 * ((j - 1) \div 4) + 1]
        /\ Len(Stamps') = Min(Len(Stamps) + 4 * g, time_view_timestamps.maxlen)

\* C4 as stated: channel c is appended the values at 10 + 4k + c for the k
\* with 10 + 4k + 3 < min(L, capacity * 4), capacity the current capacity.
C4_DemuxByCapacity ==
    [][(last'.op = "on_data_received" /\ last'.tag = mqtt_tag) =>
          DemuxOf({ k \in 0 .. (last'.len \div SplitStep) :
                      SplitStart + SplitStep * k + 3
                          < Min(last'.len, time_view_buffers[0].maxlen * 4) })]_vars

\* C4 as amended: channel c is appended the values at 10 + 4k + c, in
\* increasing k, for the k with 10 + 4k < min(L, 4096 * 4) and
\* 10 + 4k + 3 < L, whatever the current capacity; the timestamps come in
\* groups of 4 identical entries.
C4_DemuxFixedBound ==
    [][(last'.op = "on_data_received" /\ last'.tag = mqtt_tag) =>
          DemuxOf({ k \in 0 .. (last'.len \div SplitStep) :
                      /\ SplitStart + SplitStep * k < Min(last'.len, SplitStopCap)
                      /\ SplitStart + SplitStep * k + 3 < last'.len })]_vars

\* A batch of 414 values was accepted at capacity 100 and its 101st group
\* (start index 410) was stored.
C4_Witness ==
    /\ Accepted
    /\ last.len = 414
    /\ time_view_buffers[0].maxlen = MinBufferSize
    /\ Len(Items(0)) > 0
    /\ Items(0)[Len(Items(0))].pos = 410

\* ---- C5
KeptMostRecent(old, new) ==
    LET m == Min(Len(old.items), new.maxlen)
    IN  /\ new.items = SubSeq(old.items, Len(old.items) - m + 1, Len(old.items))
        /\ new.maxlen = old.maxlen => new = old

\* C5: a tick leaves in every channel buffer the most recent
\* min(old length, new capacity) entries in their order, in the timestamp
\* buffer the most recent min(old length, 4 * new capacity), and changes
\* nothing where the capacity stays.
C5_ResizeKeepsRecent ==
    [][last'.op = "update_time_view_plot" =>
          /\ \A c \in Channels : KeptMostRecent(time_view_buffers[c], time_view_buffers'[c])
          /\ KeptMostRecent(time_view_timestamps, time_view_timestamps')
          /\ time_view_timestamps'.maxlen = 4 * time_view_buffers'[0].maxlen]_vars

\* The first tick shrank buffers holding 101 positions to capacity 100.
C5_Witness ==
    /\ last.op = "update_time_view_plot"
    /\ n.ingest = 0
    /\ stored > MinBufferSize
    /\ time_view_buffers[0].maxlen = MinBufferSize
    /\ Len(Items(0)) = MinBufferSize
    /\ Items(0)[1].seq = stored - MinBufferSize + 1

\* ---- C6
\* C6: no handler ends with an unhandled exception.
C6_NoUnhandledError == error = "none"

\* ---- C7
C7_Step ==
    IF last'.op = "on_data_received"
    THEN IF last'.tag = mqtt_tag
         THEN /\ last_data_time' = << now' >>
              /\ IF last_data_time # <<>> /\ now' - last_data_time[1] > 0
                 THEN data_rate'[1] * 4 * (now' - last_data_time[1])
                          = last'.len * MsPerSecond * data_rate'[2]
                 ELSE data_rate' = data_rate
         ELSE UNCHANGED rateVars
    ELSE IF last'.op = "setup_time_view_plot" \/ (last'.op = "initUI" /\ last'.tag # NoTag)
    THEN data_rate' = RInt(1) /\ last_data_time' = <<>>
    ELSE UNCHANGED rateVars

Rendered == last.op = "update_time_view_plot" /\ error = "none" /\ time_result = "data"

\* C8: after a tick that rendered, every chart that drew its line used a
\* samples-per-window of at least 2 and at most the length of its channel
\* buffer as the sizer left it, so its x and y data have the same size.
C8_WindowFitsBuffer ==
    Rendered =>
        \A i \in Channels :
            /\ lines[i].nx = lines[i].ny
            /\ lines[i].nx # 0 =>
                   /\ lines[i].nx >= MinSamplesPerWindow
                   /\ lines[i].nx <= Len(Items(i))

\* ---- C9
C9_Step ==
    /\ (last'.op = "on_press" /\ last'.inaxes # <<>> /\ last'.button = 1) =>
           /\ dragging'
           /\ press_x' = last'.xdata
           /\ active_ax' = << [gen |-> axes, idx |-> last'.inaxes[1]] >>
    /\ last'.op = "on_release" =>
           /\ ~dragging'
           /\ press_x' = <<>>
           /\ active_ax' = <<>>
    /\ last'.op = "on_motion" =>
           IF /\ dragging
              /\ last'.inaxes # <<>>
              /\ active_ax = << [gen |-> axes, idx |-> last'.inaxes[1]] >>
           THEN LET i == last'.inaxes[1]
                    dx == RSub(press_x[1], last'.xdata[1])
                IN  /\ xlim'[i] = << RAdd(xlim[i][1], dx), RAdd(xlim[i][2], dx) >>
                    /\ Width(xlim'[i]) = Width(xlim[i])
                    /\ \A c \in Channels \ {i} : xlim'[c] = xlim[c]
                    /\ press_x' = last'.xdata
           ELSE xlim' = xlim /\ press_x' = press_x

\* C9: dragging implies press_x and active_ax are set; a primary press in a
\* chart starts the drag with both recorded; release clears all three; a
\* motion moves limits only while dragging inside the active chart, and then
\* shifts that chart's two limits by press_x - x and sets press_x to x.
C9_DragMachine ==
    [](dragging => (press_x # <<>> /\ active_ax # <<>>)) /\ [][C9_Step]_vars

\* A drag on chart 0 has panned it, its width and chart 1 unchanged.
C9_Witness ==
    /\ last.op = "on_motion"
    /\ dragging
    /\ xlim[0][1] # RInt(0)
    /\ Width(xlim[0]) = RInt(1)
    /\ xlim[1] = << RInt(0), RInt(1) >>

\* ---- C10
\* C10: the four channel buffers have one length and one capacity, the
\* timestamp buffer has 4 times that capacity and 4 times that length, and
\* the 4 timestamps at positions 4j-3 .. 4j belong to the j-th sample of
\* every channel.
C10_Aligned ==
    /\ time_view_timestamps.maxlen = 4 * time_view_buffers[0].maxlen
    /\ Len(Stamps) = 4 * Len(Items(0))
    /\ \A c \in Channels :
          /\ time_view_buffers[c].maxlen = time_view_buffers[0].maxlen
          /\ Len(Items(c)) = Len(Items(0))
          /\ \A j \in 1 .. Len(Items(c)) : \A r \in 1 .. 4 :
                /\ Stamps[4 * (j - 1) + r].seq = Items(c)[j].seq
                /\ Stamps[4 * (j - 1) + r].id = Items(c)[j].id

\* The sizer has grown the buffers beyond 100 and they hold more than 100.
C10_Witness ==
    /\ last.op = "update_time_view_plot"
    /\ time_view_buffers[0].maxlen > MinBufferSize
    /\ time_view_buffers[0].maxlen < initial_buffer_size
    /\ Len(Items(0)) > MinBufferSize

====
